---------------------------- MODULE Spec2Model ----------------------------
(***************************************************************************)
(* Model of the Ollama -> OpenRouter proxy: the provider (alias table,     *)
(* GetModels, GetFullModelName) and the HTTP handlers of main.go           *)
(* (/api/tags, /api/chat with its streaming loop).                         *)
(*                                                                         *)
(* The repository holds two provider files and two /api/chat handlers.     *)
(*   provider "part_001": GetFullModelName refreshes an empty table, then  *)
(*                        exact match, suffix match, pass-through;         *)
(*   provider "part_000": GetFullModelName is a suffix match or an error;  *)
(*   handler  "main"    : src/main.go (NDJSON, stream flag, finish_reason);*)
(*   handler  "legacy"  : the main.go embedded in src/Dockerfile.          *)
(* GetModels is the same text in both provider files.                      *)
(*                                                                         *)
(* Strings are sequences of characters, so that strings.HasSuffix and      *)
(* strings.Split are computed, not assumed.                                *)
(***************************************************************************)
EXTENDS Integers, Sequences, FiniteSets, TLC

(***************************************************************************)
(* Bounds of the model.                                                    *)
(***************************************************************************)
\* longest model id / alias, in characters
MaxIdLen == 3
\* longest upstream catalog of the provider specification
MaxCatalog == 2
\* longest upstream catalog of the server and race specifications
MaxSmallCatalog == 2
\* most deltas an upstream stream delivers before it ends
MaxDeltas == 2
\* most chunks on the wire while an endless upstream stream is followed
MaxWire == 2

Chars == {"a", "/"}

Slash == "/"

RECURSIVE StringsOfLen(_)
StringsOfLen(n) ==
    IF n = 0 THEN {<< >>}
    ELSE {Append(s, c) : s \in StringsOfLen(n - 1), c \in Chars}

\* every string of at most n characters, the empty string included
StringsUpTo(n) == UNION {StringsOfLen(k) : k \in 0..n}

RECURSIVE SeqsOfLen(_, _)
SeqsOfLen(S, n) ==
    IF n = 0 THEN {<< >>}
    ELSE {Append(s, x) : s \in SeqsOfLen(S, n - 1), x \in S}

SeqsUpTo(S, n) == UNION {SeqsOfLen(S, k) : k \in 0..n}

Range(s) == {s[i] : i \in 1..Len(s)}

(***************************************************************************)
(* Pure functions of the provider.                                         *)
(***************************************************************************)
\* strings.HasSuffix(s, suffix)
HasSuffix(s, suffix) ==
    /\ Len(suffix) <= Len(s)
    /\ SubSeq(s, Len(s) - Len(suffix) + 1, Len(s)) = suffix

\* parts := strings.Split(id, "/"); name := parts[len(parts)-1]
LastSegment(id) ==
    LET slashes == {i \in 1..Len(id) : id[i] = Slash}
        last == IF slashes = {} THEN 0
                ELSE CHOOSE i \in slashes : \A j \in slashes : j <= i
    IN SubSeq(id, last + 1, Len(id))

\* first index of names whose entry equals alias, 0 when there is none
ExactIndex(names, alias) ==
    LET hits == {i \in 1..Len(names) : names[i] = alias}
    IN IF hits = {} THEN 0 ELSE CHOOSE i \in hits : \A j \in hits : i <= j

\* a slip that would repeat the exact comparison in the second loop
SuffixIndexExactAgain(names, alias) == ExactIndex(names, alias)

\* first index of names whose entry has alias as a suffix, 0 when none
SuffixIndex(names, alias) ==
    LET hits == {i \in 1..Len(names) : HasSuffix(names[i], alias)}
    IN IF hits = {} THEN 0 ELSE CHOOSE i \in hits : \A j \in hits : i <= j

(***************************************************************************)
(* Errors: an error is the sequence of its message parts, outermost        *)
(* wrapper first (fmt.Errorf("failed to get models: %w", err)).            *)
(***************************************************************************)
NoErr == << >>
UpstreamErr == <<"upstream error">>
WrapGetModels(err) == <<"failed to get models">> \o err
NotFoundErr == <<"model alias not found">>

(***************************************************************************)
(* State.                                                                  *)
(***************************************************************************)
VARIABLES
    modelNames,        \* o.modelNames: the alias table, shared by all handlers
    catalog,           \* what the upstream's ListModels returns when it succeeds
    modelFilter,       \* main.go's global modelFilter (set of display names)
    provider,          \* which provider file is built: "part_000" or "part_001"
    handler,           \* which /api/chat handler is built: "main" or "legacy"
    lastComplete,      \* history: the table the last completed GetModels built
    pc,                \* per goroutine: where it stands
    req,               \* per goroutine: the request (or direct call) it serves
    gm,                \* per goroutine: the frame of its GetModels call
    rs,                \* per goroutine: the frame of its GetFullModelName call
    st,                \* per goroutine: its upstream chat stream
    out,               \* per goroutine: the HTTP response written so far
    lastFinishReason,  \* per goroutine: main.go's lastFinishReason
    client             \* per goroutine: is the inbound connection still open

vars == <<modelNames, catalog, modelFilter, provider, handler, lastComplete,
          pc, req, gm, rs, st, out, lastFinishReason, client>>

\* what no request handler changes
config == <<catalog, modelFilter, provider, handler>>

Procs == {1, 2}

Providers == {"part_000", "part_001"}

Handlers == {"main", "legacy"}

NoReq == [kind |-> "none", model |-> << >>, stream |-> "absent", json |-> TRUE]

NoGm == [caller |-> "none", resp |-> << >>, i |-> 0, tmp |-> << >>,
         models |-> << >>, err |-> NoErr, cleared |-> FALSE]

NoRs == [caller |-> "none", refreshed |-> FALSE, reads |-> << >>,
         name |-> << >>, err |-> NoErr, returned |-> FALSE]

NoStream == [open |-> FALSE, failed |-> FALSE, closed |-> FALSE,
             deltas |-> << >>, end |-> "EOF", pos |-> 1, recvs |-> 0,
             ended |-> FALSE]

NoOut == [status |-> 0, body |-> << >>, panicked |-> FALSE]

\* the locals of every goroutine before it serves anything
InitLocals(running) ==
    /\ pc = [p \in Procs |-> IF p \in running THEN "idle" ELSE "off"]
    /\ req = [p \in Procs |-> NoReq]
    /\ gm = [p \in Procs |-> NoGm]
    /\ rs = [p \in Procs |-> NoRs]
    /\ st = [p \in Procs |-> NoStream]
    /\ out = [p \in Procs |-> NoOut]
    /\ lastFinishReason = [p \in Procs |-> ""]
    /\ client = [p \in Procs |-> TRUE]

\* NewOpenrouterProvider: modelNames: []string{}
InitProvider ==
    /\ modelNames = << >>
    /\ lastComplete = << >>

(***************************************************************************)
(* GetModels, step by step: the steps of two goroutines interleave, as     *)
(* nothing in the provider locks the table.                                *)
(***************************************************************************)
\* a slip that would clear the table before looking at the error
AfterListErrorClears == "gm_clear"

\* if err != nil { return nil, err }: the return comes before the clear
AfterListError == "gm_return"

\* modelsResponse, err := o.client.ListModels(ctx); if err != nil { return nil, err }
GmList(p) ==
    /\ pc[p] = "gm_list"
    /\ \E ok \in BOOLEAN :
          IF ok
          THEN /\ gm' = [gm EXCEPT ![p].resp = catalog]
               /\ pc' = [pc EXCEPT ![p] = "gm_clear"]
          ELSE /\ gm' = [gm EXCEPT ![p].err = UpstreamErr]
               /\ pc' = [pc EXCEPT ![p] = AfterListError]
    /\ UNCHANGED <<modelNames, config, lastComplete, req, rs, st, out,
                   lastFinishReason, client>>

\* o.modelNames = []string{}
GmClear(p) ==
    /\ pc[p] = "gm_clear"
    /\ modelNames' = << >>
    /\ gm' = [gm EXCEPT ![p].i = 1, ![p].cleared = TRUE]
    /\ pc' = [pc EXCEPT ![p] = "gm_read"]
    /\ UNCHANGED <<config, lastComplete, req, rs, st, out, lastFinishReason,
                   client>>

\* a slip that would store the display name instead of the id
StoredIdAsName(id) == LastSegment(id)

\* o.modelNames = append(o.modelNames, apiModel.ID): the full id is stored
StoredId(id) == id

\* the loop head, and the read half of o.modelNames = append(o.modelNames, ...)
GmRead(p) ==
    /\ pc[p] = "gm_read"
    /\ IF gm[p].i <= Len(gm[p].resp)
       THEN /\ gm' = [gm EXCEPT ![p].tmp = modelNames]
            /\ pc' = [pc EXCEPT ![p] = "gm_write"]
       ELSE /\ gm' = gm
            /\ pc' = [pc EXCEPT ![p] = "gm_return"]
    /\ UNCHANGED <<modelNames, config, lastComplete, req, rs, st, out,
                   lastFinishReason, client>>

\* the write half of the append, and models = append(models, model)
GmWrite(p) ==
    /\ pc[p] = "gm_write"
    /\ LET id == gm[p].resp[gm[p].i]
       IN /\ modelNames' = Append(gm[p].tmp, StoredId(id))
          /\ gm' = [gm EXCEPT ![p].models = Append(@, LastSegment(id)),
                              ![p].i = @ + 1,
                              ![p].tmp = << >>]
    /\ pc' = [pc EXCEPT ![p] = "gm_read"]
    /\ UNCHANGED <<config, lastComplete, req, rs, st, out, lastFinishReason,
                   client>>

\* return models, nil / return nil, err: back to the caller
GmReturn(p) ==
    /\ pc[p] = "gm_return"
    /\ lastComplete' = IF gm[p].err = NoErr THEN gm[p].resp ELSE lastComplete
    /\ IF gm[p].caller = "resolve"
       THEN IF gm[p].err = NoErr
            THEN /\ pc' = [pc EXCEPT ![p] = "gf_exact"]
                 /\ rs' = rs
            ELSE /\ pc' = [pc EXCEPT ![p] = "gf_return"]
                 /\ rs' = [rs EXCEPT ![p].err = WrapGetModels(gm[p].err),
                                     ![p].returned = TRUE]
       ELSE /\ pc' = [pc EXCEPT ![p] =
                        IF gm[p].caller = "tags" THEN "tags_respond" ELSE "done"]
            /\ rs' = rs
    /\ UNCHANGED <<modelNames, config, req, gm, st, out, lastFinishReason,
                   client>>

(***************************************************************************)
(* GetFullModelName, step by step.  Each `range o.modelNames` reads the    *)
(* slice header once, when the loop starts, and scans that snapshot.       *)
(***************************************************************************)
\* does another goroutine stand right before a write that changes the slice
\* header of o.modelNames (clearing an empty table stores the same header)
WriterPending(p) ==
    \E q \in Procs \ {p} :
        \/ pc[q] = "gm_clear" /\ Len(modelNames) > 0
        \/ pc[q] = "gm_write"

\* What an unsynchronised read of the slice header can yield: the value of
\* the table, or, when it races with a write of another goroutine, a torn
\* header (pointer of one value, length of the other).
RacyRead(p) ==
    {[torn |-> FALSE, names |-> modelNames]}
        \cup (IF WriterPending(p) THEN {[torn |-> TRUE, names |-> << >>]} ELSE {})

\* A scan of a torn header reads memory that is no table: it faults (a
\* runtime panic) or compares garbage that matches nothing.
ScanOutcomes(r) == IF r.torn THEN {"panic", "scan"} ELSE {"scan"}

\* if len(o.modelNames) == 0
NeedsRefresh(names) == Len(names) = 0

\* part_001: the empty-table check, then GetModels; part_000 has none
GfEnter(p) ==
    /\ pc[p] = "gf_enter"
    /\ IF provider = "part_001"
       THEN IF NeedsRefresh(modelNames)
            THEN /\ gm' = [gm EXCEPT ![p] = [NoGm EXCEPT !.caller = "resolve"]]
                 /\ rs' = [rs EXCEPT ![p].refreshed = TRUE]
                 /\ pc' = [pc EXCEPT ![p] = "gm_list"]
            ELSE /\ pc' = [pc EXCEPT ![p] = "gf_exact"]
                 /\ UNCHANGED <<gm, rs>>
       ELSE /\ pc' = [pc EXCEPT ![p] = "gf_suffix"]
            /\ UNCHANGED <<gm, rs>>
    /\ UNCHANGED <<modelNames, config, lastComplete, req, st, out,
                   lastFinishReason, client>>

\* part_001: for _, fullName := range o.modelNames { if fullName == alias ...
GfExact(p) ==
    /\ pc[p] = "gf_exact"
    /\ \E r \in RacyRead(p) : \E how \in ScanOutcomes(r) :
          LET k == ExactIndex(r.names, req[p].model)
          IN /\ rs' = [rs EXCEPT ![p].reads = Append(@, r),
                                 ![p].name = IF how = "scan" /\ k > 0
                                             THEN r.names[k] ELSE @,
                                 ![p].returned = (how = "scan" /\ k > 0)]
             /\ pc' = [pc EXCEPT ![p] =
                         IF how = "panic" THEN "panic"
                         ELSE IF k > 0 THEN "gf_return" ELSE "gf_suffix"]
    /\ UNCHANGED <<modelNames, config, lastComplete, req, gm, st, out,
                   lastFinishReason, client>>

\* part_001: return alias, nil
NoMatchPassThrough(alias) == [name |-> alias, err |-> NoErr]

\* part_000: return "", fmt.Errorf("model alias '%s' not found", alias)
NoMatchNotFound(alias) == [name |-> << >>, err |-> NotFoundErr]

\* for _, fullName := range o.modelNames { if strings.HasSuffix(fullName, alias) ...
\* and what follows the loop
GfSuffix(p) ==
    /\ pc[p] = "gf_suffix"
    /\ \E r \in RacyRead(p) : \E how \in ScanOutcomes(r) :
          LET k == SuffixIndex(r.names, req[p].model)
              miss == IF provider = "part_001"
                      THEN NoMatchPassThrough(req[p].model)
                      ELSE NoMatchNotFound(req[p].model)
          IN /\ rs' = [rs EXCEPT ![p].reads = Append(@, r),
                                 ![p].name = IF how = "panic" THEN @
                                             ELSE IF k > 0 THEN r.names[k]
                                             ELSE miss.name,
                                 ![p].err = IF how = "panic" \/ k > 0 THEN @
                                            ELSE miss.err,
                                 ![p].returned = (how = "scan")]
             /\ pc' = [pc EXCEPT ![p] =
                         IF how = "panic" THEN "panic" ELSE "gf_return"]
    /\ UNCHANGED <<modelNames, config, lastComplete, req, gm, st, out,
                   lastFinishReason, client>>

(***************************************************************************)
(* Direct calls of the provider's methods, one caller at a time or two     *)
(* callers at once.                                                        *)
(***************************************************************************)
\* An upstream model id: "name" or "vendor/name", no segment empty.
WellFormedId(s) ==
    /\ Len(s) > 0
    /\ s[1] # Slash
    /\ s[Len(s)] # Slash
    /\ \A i \in 1..(Len(s) - 1) : ~(s[i] = Slash /\ s[i + 1] = Slash)

Ids == {s \in StringsUpTo(MaxIdLen) : WellFormedId(s)}

Aliases == StringsUpTo(MaxIdLen)

\* a caller that makes call after call, and one that makes a single call
Again == {"idle", "done"}

Once == {"idle"}

\* provider.GetModels()
CallGetModels(p, from) ==
    /\ pc[p] \in from
    /\ req' = [req EXCEPT ![p] = [NoReq EXCEPT !.kind = "GetModels"]]
    /\ gm' = [gm EXCEPT ![p] = [NoGm EXCEPT !.caller = "direct"]]
    /\ rs' = [rs EXCEPT ![p] = NoRs]
    /\ pc' = [pc EXCEPT ![p] = "gm_list"]
    /\ UNCHANGED <<modelNames, config, lastComplete, st, out,
                   lastFinishReason, client>>

\* provider.GetFullModelName(alias)
CallGetFullModelName(p, from, aliases) ==
    /\ pc[p] \in from
    /\ \E alias \in aliases :
          req' = [req EXCEPT ![p] = [NoReq EXCEPT !.kind = "GetFullModelName",
                                                  !.model = alias]]
    /\ gm' = [gm EXCEPT ![p] = NoGm]
    /\ rs' = [rs EXCEPT ![p] = [NoRs EXCEPT !.caller = "direct"]]
    /\ pc' = [pc EXCEPT ![p] = "gf_enter"]
    /\ UNCHANGED <<modelNames, config, lastComplete, st, out,
                   lastFinishReason, client>>

\* the direct caller has its result (or the runtime panic of a torn read)
DirectReturn(p) ==
    /\ pc[p] \in {"gf_return", "panic"}
    /\ req[p].kind = "GetFullModelName"
    /\ out' = [out EXCEPT ![p].panicked = (pc[p] = "panic")]
    /\ pc' = [pc EXCEPT ![p] = "done"]
    /\ UNCHANGED <<modelNames, config, lastComplete, req, gm, rs, st,
                   lastFinishReason, client>>

(***************************************************************************)
(* The provider, called by one caller: every catalog of at most MaxCatalog *)
(* ids, every alias, both provider files.                                  *)
(***************************************************************************)
InitProviderSpec ==
    /\ InitProvider
    /\ catalog \in SeqsUpTo(Ids, MaxCatalog)
    /\ modelFilter = {}
    /\ provider \in Providers
    /\ handler = "main"
    /\ InitLocals({1})

NextProvider ==
    \E p \in Procs :
        \/ CallGetModels(p, Again)
        \/ CallGetFullModelName(p, Again, Aliases)
        \/ GmList(p)
        \/ GmClear(p)
        \/ GmRead(p)
        \/ GmWrite(p)
        \/ GmReturn(p)
        \/ GfEnter(p)
        \/ GfExact(p)
        \/ GfSuffix(p)
        \/ DirectReturn(p)

SpecProvider == InitProviderSpec /\ [][NextProvider]_vars

(***************************************************************************)
(* GET /api/tags.                                                          *)
(***************************************************************************)
\* r.GET("/api/tags", ...): models, err := provider.GetModels()
AcceptTags(p) ==
    /\ pc[p] \in {"idle", "done"}
    /\ req' = [req EXCEPT ![p] = [NoReq EXCEPT !.kind = "tags"]]
    /\ gm' = [gm EXCEPT ![p] = [NoGm EXCEPT !.caller = "tags"]]
    /\ rs' = [rs EXCEPT ![p] = NoRs]
    /\ st' = [st EXCEPT ![p] = NoStream]
    /\ out' = [out EXCEPT ![p] = NoOut]
    /\ lastFinishReason' = [lastFinishReason EXCEPT ![p] = ""]
    /\ client' = [client EXCEPT ![p] = TRUE]
    /\ pc' = [pc EXCEPT ![p] = "gm_list"]
    /\ UNCHANGED <<modelNames, config, lastComplete>>

\* a slip that would filter even when the filter is empty
KeepsFilterAlways(filter, name) == name \in filter

\* if len(filter) > 0 { if _, ok := filter[m.Model]; !ok { continue } }
Keeps(filter, name) == filter = {} \/ name \in filter

RECURSIVE FilterModels(_, _)
\* the loop over models that builds newModels, in order
FilterModels(models, filter) ==
    IF models = << >> THEN << >>
    ELSE LET rest == FilterModels(Tail(models), filter)
         IN IF Keeps(filter, Head(models)) THEN <<Head(models)>> \o rest
            ELSE rest

\* c.JSON(500, {"error": err.Error()}) or c.JSON(200, {"models": newModels})
TagsRespond(p) ==
    /\ pc[p] = "tags_respond"
    /\ out' = [out EXCEPT ![p] =
                 IF gm[p].err # NoErr
                 THEN [NoOut EXCEPT !.status = 500,
                                    !.body = <<[type |-> "error", error |-> gm[p].err]>>]
                 ELSE [NoOut EXCEPT !.status = 200,
                                    !.body = <<[type |-> "models",
                                                models |-> FilterModels(gm[p].models,
                                                                        modelFilter)]>>]]
    /\ pc' = [pc EXCEPT ![p] = "done"]
    /\ UNCHANGED <<modelNames, config, lastComplete, req, gm, rs, st,
                   lastFinishReason, client>>

(***************************************************************************)
(* POST /api/chat.                                                         *)
(***************************************************************************)
\* a field a JSON object does not carry
Absent == "<absent>"

\* what the body's "stream" field can be
StreamFlags == {Absent, "true", "false"}

\* One response of stream.Recv(): Choices is empty, or Choices[0] carries
\* Delta.Content and FinishReason.
Contents == {"", "He"}

FinishReasons == {"", "stop", "length"}

Deltas ==
    {[empty |-> TRUE, content |-> "", finish |-> ""]}
        \cup {[empty |-> FALSE, content |-> c, finish |-> f] :
                  c \in Contents, f \in FinishReasons}

\* the aliases chat requests carry in the server specifications
ChatAliases == {<<"a">>, <<Slash>>}

\* r.POST("/api/chat", ...): a request arrives
AcceptChat(p) ==
    /\ pc[p] \in {"idle", "done"}
    /\ \E alias \in ChatAliases, flag \in StreamFlags, json \in BOOLEAN :
          req' = [req EXCEPT ![p] = [kind |-> "chat", model |-> alias,
                                     stream |-> flag, json |-> json]]
    /\ gm' = [gm EXCEPT ![p] = NoGm]
    /\ rs' = [rs EXCEPT ![p] = NoRs]
    /\ st' = [st EXCEPT ![p] = NoStream]
    /\ out' = [out EXCEPT ![p] = NoOut]
    /\ lastFinishReason' = [lastFinishReason EXCEPT ![p] = ""]
    /\ client' = [client EXCEPT ![p] = TRUE]
    /\ pc' = [pc EXCEPT ![p] = "chat_bind"]
    /\ UNCHANGED <<modelNames, config, lastComplete>>

\* a slip that would take an absent stream field for false
StreamRequestedAbsentIsFalse(flag) == flag = "true"

\* streamRequested := true; if request.Stream != nil { streamRequested = *request.Stream }
StreamRequested(flag) == flag # "false"

\* c.ShouldBindJSON; main.go: the stream flag; then provider.GetFullModelName
ChatBind(p) ==
    /\ pc[p] = "chat_bind"
    /\ IF ~req[p].json
       THEN /\ out' = [out EXCEPT ![p].status = 400,
                                  ![p].body = <<[type |-> "error",
                                                 error |-> <<"Invalid JSON payload">>]>>]
            /\ pc' = [pc EXCEPT ![p] = "done"]
            /\ rs' = rs
       ELSE IF handler = "main" /\ ~StreamRequested(req[p].stream)
       THEN /\ out' = [out EXCEPT ![p].status = 501,
                                  ![p].body = <<[type |-> "error",
                                                 error |-> <<"Non-streaming response not implemented yet">>]>>]
            /\ pc' = [pc EXCEPT ![p] = "done"]
            /\ rs' = rs
       ELSE /\ out' = out
            /\ rs' = [rs EXCEPT ![p] = [NoRs EXCEPT !.caller = "chat"]]
            /\ pc' = [pc EXCEPT ![p] = "gf_enter"]
    /\ UNCHANGED <<modelNames, config, lastComplete, req, gm, st,
                   lastFinishReason, client>>

\* the status a failed GetFullModelName is answered with: main.go 404
\* (StatusNotFound), the legacy handler 400 (StatusBadRequest)
ResolveErrorStatus(h) == IF h = "main" THEN 404 ELSE 400

\* fullModelName, err := provider.GetFullModelName(request.Model); if err != nil ...
ChatResolved(p) ==
    /\ pc[p] = "gf_return"
    /\ req[p].kind = "chat"
    /\ IF rs[p].err # NoErr
       THEN /\ out' = [out EXCEPT ![p].status = ResolveErrorStatus(handler),
                                  ![p].body = <<[type |-> "error", error |-> rs[p].err]>>]
            /\ pc' = [pc EXCEPT ![p] = "done"]
       ELSE /\ out' = out
            /\ pc' = [pc EXCEPT ![p] = "chat_open"]
    /\ UNCHANGED <<modelNames, config, lastComplete, req, gm, rs, st,
                   lastFinishReason, client>>

\* how an upstream stream can end: a clean end (io.EOF), an error, or not at
\* all (the upstream keeps sending its deltas, two or more, over and over)
StreamEnds == {"EOF", "ERR", "MORE"}

\* stream, err := provider.ChatStream(request.Messages, fullModelName)
ChatOpen(p, ends) ==
    /\ pc[p] = "chat_open"
    /\ \E ok \in BOOLEAN :
          IF ok
          THEN /\ \E ds \in SeqsUpTo(Deltas, MaxDeltas), e \in ends :
                     /\ (e = "MORE" => Len(ds) >= 2)
                     /\ st' = [st EXCEPT ![p] = [NoStream EXCEPT !.open = TRUE,
                                                                 !.deltas = ds,
                                                                 !.end = e]]
               /\ out' = out
               /\ pc' = [pc EXCEPT ![p] = "recv"]
          ELSE /\ st' = [st EXCEPT ![p].failed = TRUE]
               /\ out' = [out EXCEPT ![p].status = 500,
                                     ![p].body = <<[type |-> "error",
                                                    error |-> UpstreamErr]>>]
               /\ pc' = [pc EXCEPT ![p] = "done"]
    /\ UNCHANGED <<modelNames, config, lastComplete, req, gm, rs,
                   lastFinishReason, client>>

\* What a write puts on the wire: nothing once the client has gone (the
\* write fails and its error is ignored); the first write commits the status.
Write(o, connected, item, status) ==
    IF connected
    THEN [o EXCEPT !.status = IF o.body = << >> /\ o.status = 0 THEN status ELSE @,
                   !.body = Append(@, item)]
    ELSE o

\* a slip that would keep the first finish reason seen
NextFinishReasonFirstWins(last, d) ==
    IF ~d.empty /\ d.finish # "" /\ last = "" THEN d.finish ELSE last

\* if len(response.Choices) > 0 && response.Choices[0].FinishReason != "" { ... }
NextFinishReason(last, d) ==
    IF ~d.empty /\ d.finish # "" THEN d.finish ELSE last

\* the response stream.Recv() delivers at position pos
DeltaAt(s) == s.deltas[((s.pos - 1) % Len(s.deltas)) + 1]

\* does another delta come before the stream ends
HasDelta(s) == s.deltas # << >> /\ (s.end = "MORE" \/ s.pos <= Len(s.deltas))

\* the intermediate chunk: "message": {"content": Choices[0].Delta.Content}, "done": false
Chunk(model, d) ==
    [type |-> "chunk", model |-> model, content |-> d.content, done |-> FALSE,
     finish |-> Absent]

\* Does a failed write of a chunk end the handler: the legacy handler returns
\* when Encode fails (and the deferred stream.Close() runs), main.go drops
\* the result of fmt.Fprintf.
WriteErrorReturns(h, connected) == h = "legacy" /\ ~connected

\* response, err := stream.Recv() with err == nil, and the body of the loop:
\* the finish reason (main.go), then the chunk built from Choices[0], which
\* panics (index out of range) when Choices is empty
RecvDelta(p) ==
    /\ pc[p] = "recv"
    /\ HasDelta(st[p])
    /\ (st[p].end = "MORE" => (~client[p] \/ Len(out[p].body) < MaxWire))
    /\ LET d == DeltaAt(st[p])
       IN /\ lastFinishReason' =
                IF handler = "main"
                THEN [lastFinishReason EXCEPT ![p] = NextFinishReason(@, d)]
                ELSE lastFinishReason
          /\ IF d.empty
             THEN /\ out' = out
                  /\ pc' = [pc EXCEPT ![p] = "panic"]
             ELSE /\ out' = [out EXCEPT ![p] =
                               Write(@, client[p], Chunk(rs[p].name, d), 200)]
                  /\ pc' = IF WriteErrorReturns(handler, client[p])
                           THEN [pc EXCEPT ![p] = "done"]
                           ELSE pc
    /\ st' = [st EXCEPT ![p].pos = IF st[p].end = "MORE"
                                   THEN (@ % Len(st[p].deltas)) + 1
                                   ELSE @ + 1,
                        ![p].recvs = IF st[p].end = "MORE" THEN @ ELSE @ + 1,
                        ![p].closed = ~DeltaAt(st[p]).empty
                                        /\ WriteErrorReturns(handler, client[p])]
    /\ UNCHANGED <<modelNames, config, lastComplete, req, gm, rs, client>>

\* if errors.Is(err, io.EOF) { break }
RecvEOF(p) ==
    /\ pc[p] = "recv"
    /\ ~HasDelta(st[p])
    /\ st[p].end = "EOF"
    /\ st' = [st EXCEPT ![p].ended = TRUE]
    /\ pc' = [pc EXCEPT ![p] = "final"]
    /\ UNCHANGED <<modelNames, config, lastComplete, req, gm, rs, out,
                   lastFinishReason, client>>

\* a slip that would break out of the loop on an error, as on io.EOF
AfterStreamErrorBreak == "final"

\* the error branch ends in return
AfterStreamError == "done"

\* the in-band notice: main.go a JSON line {"error": "Stream error: ..."},
\* the legacy handler the text "Error streaming: ..."
ErrorNotice(h, err) ==
    [type |-> "error",
     error |-> (IF h = "main" THEN <<"Stream error">> ELSE <<"Error streaming">>) \o err]

\* if err != nil { ... write the notice; Flush; return }: the legacy handler
\* sets c.Status(500) first, which reaches the wire only if nothing was written
RecvError(p) ==
    /\ pc[p] = "recv"
    /\ ~HasDelta(st[p])
    /\ st[p].end = "ERR"
    /\ out' = [out EXCEPT ![p] =
                 Write(@, client[p], ErrorNotice(handler, UpstreamErr),
                       IF handler = "main" THEN 200 ELSE 500)]
    /\ st' = [st EXCEPT ![p].ended = TRUE,
                        ![p].closed = (AfterStreamError = "done")]
    /\ pc' = [pc EXCEPT ![p] = AfterStreamError]
    /\ UNCHANGED <<modelNames, config, lastComplete, req, gm, rs,
                   lastFinishReason, client>>

\* if lastFinishReason == "" { lastFinishReason = "stop" }
TerminalFinish(last) == IF last = "" THEN "stop" ELSE last

\* the final object: main.go carries done and finish_reason and no message,
\* the legacy handler done and an empty message and no finish_reason
FinalChunk(h, model, last) ==
    [type |-> "chunk", model |-> model,
     content |-> IF h = "main" THEN Absent ELSE "",
     done |-> TRUE,
     finish |-> IF h = "main" THEN TerminalFinish(last) ELSE Absent]

\* after the loop: the final object is written, the handler returns and the
\* deferred stream.Close() runs
WriteFinal(p) ==
    /\ pc[p] = "final"
    /\ out' = [out EXCEPT ![p] =
                 Write(@, client[p],
                       FinalChunk(handler, rs[p].name, lastFinishReason[p]), 200)]
    /\ st' = [st EXCEPT ![p].closed = TRUE]
    /\ pc' = [pc EXCEPT ![p] = "done"]
    /\ UNCHANGED <<modelNames, config, lastComplete, req, gm, rs,
                   lastFinishReason, client>>

\* A runtime panic in the handler: deferred stream.Close() runs, and gin's
\* Recovery (gin.Default()) answers 500 unless the status is on the wire.
ChatPanic(p) ==
    /\ pc[p] = "panic"
    /\ req[p].kind = "chat"
    /\ out' = [out EXCEPT ![p].panicked = TRUE,
                          ![p].status = IF @ = 0 THEN 500 ELSE @]
    /\ st' = [st EXCEPT ![p].closed = st[p].open]
    /\ pc' = [pc EXCEPT ![p] = "done"]
    /\ UNCHANGED <<modelNames, config, lastComplete, req, gm, rs,
                   lastFinishReason, client>>

\* the caller closes the inbound connection while the response streams
ClientClose(p) ==
    /\ pc[p] = "recv"
    /\ client[p]
    /\ client' = [client EXCEPT ![p] = FALSE]
    /\ UNCHANGED <<modelNames, config, lastComplete, pc, req, gm, rs, st, out,
                   lastFinishReason>>

(***************************************************************************)
(* The server with one request at a time: /api/tags and /api/chat against  *)
(* small catalogs, every stream of at most MaxDeltas deltas.               *)
(***************************************************************************)
SmallIds == {<<"a", Slash, "a">>, <<"a", "a">>}

SmallCatalogs == SeqsUpTo(SmallIds, MaxSmallCatalog)

\* the filter file: absent or empty, or some display names
Filters == {{}, {<<"a">>}}

InitServer ==
    /\ InitProvider
    /\ catalog \in SmallCatalogs
    /\ modelFilter \in Filters
    /\ provider \in Providers
    /\ handler \in Handlers
    /\ InitLocals({1})

Next ==
    \E p \in Procs :
        \/ AcceptTags(p)
        \/ TagsRespond(p)
        \/ AcceptChat(p)
        \/ ChatBind(p)
        \/ ChatResolved(p)
        \/ ChatOpen(p, {"EOF", "ERR"})
        \/ RecvDelta(p)
        \/ RecvEOF(p)
        \/ RecvError(p)
        \/ WriteFinal(p)
        \/ ChatPanic(p)
        \/ GmList(p)
        \/ GmClear(p)
        \/ GmRead(p)
        \/ GmWrite(p)
        \/ GmReturn(p)
        \/ GfEnter(p)
        \/ GfExact(p)
        \/ GfSuffix(p)

Spec == InitServer /\ [][Next]_vars

(***************************************************************************)
(* Two goroutines calling the provider at once (two requests in flight),   *)
(* one call each: nothing orders their steps.  They start on a fresh       *)
(* provider or on one whose table an earlier GetModels has filled.         *)
(***************************************************************************)
RaceAliases == {<<"a">>}

InitRace ==
    /\ catalog \in SmallCatalogs
    /\ modelNames \in {<< >>, catalog}
    /\ lastComplete = modelNames
    /\ modelFilter = {}
    /\ provider \in Providers
    /\ handler = "main"
    /\ InitLocals(Procs)

NextRace ==
    \E p \in Procs :
        \/ CallGetModels(p, Once)
        \/ CallGetFullModelName(p, Once, RaceAliases)
        \/ GmList(p)
        \/ GmClear(p)
        \/ GmRead(p)
        \/ GmWrite(p)
        \/ GmReturn(p)
        \/ GfEnter(p)
        \/ GfExact(p)
        \/ GfSuffix(p)
        \/ DirectReturn(p)

SpecRace == InitRace /\ [][NextRace]_vars

(***************************************************************************)
(* One chat request whose caller may hang up, against upstream streams     *)
(* that end or never end.  The Go scheduler runs a runnable handler, and   *)
(* the upstream answers every Recv: the handler's steps are weakly fair.   *)
(* Nothing obliges a caller to send a request or to hang up.               *)
(***************************************************************************)
InitCancel ==
    /\ InitProvider
    /\ catalog = <<<<"a", Slash, "a">>>>
    /\ modelFilter = {}
    /\ provider = "part_001"
    /\ handler \in Handlers
    /\ InitLocals({1})

HandlerStep(p) ==
    \/ ChatBind(p)
    \/ ChatResolved(p)
    \/ ChatOpen(p, StreamEnds)
    \/ RecvDelta(p)
    \/ RecvEOF(p)
    \/ RecvError(p)
    \/ WriteFinal(p)
    \/ ChatPanic(p)
    \/ GmList(p)
    \/ GmClear(p)
    \/ GmRead(p)
    \/ GmWrite(p)
    \/ GmReturn(p)
    \/ GfEnter(p)
    \/ GfExact(p)
    \/ GfSuffix(p)

NextCancel ==
    \E p \in Procs :
        \/ AcceptChat(p)
        \/ ClientClose(p)
        \/ HandlerStep(p)

SpecCancel ==
    InitCancel /\ [][NextCancel]_vars /\ \A p \in Procs : WF_vars(HandlerStep(p))

(***************************************************************************)
(* Properties of GetFullModelName as a function of the table it reads      *)
(* (SpecProvider).                                                         *)
(***************************************************************************)
\* goroutine p has a result of GetFullModelName(req[p].model) in rs[p]
Resolved(p) ==
    /\ pc[p] = "done"
    /\ req[p].kind = "GetFullModelName"
    /\ ~out[p].panicked

\* C3, as claimed: an alias that is an entry of the alias table resolves to
\* itself, whatever else the table holds and in whatever order.
C3_ExactAliasResolvesToItself ==
    \A p \in Procs :
        (Resolved(p) /\ req[p].model \in Range(modelNames))
            => (rs[p].err = NoErr /\ rs[p].name = req[p].model)

\* C3 for the provider file that scans for an exact match first.
C3_ExactFirstProvider ==
    \A p \in Procs :
        (provider = "part_001" /\ Resolved(p) /\ req[p].model \in Range(modelNames))
            => (rs[p].err = NoErr /\ rs[p].name = req[p].model)

\* entry is "vendor/X" for a non-empty vendor and the name X
IsVendorSlash(entry, X) ==
    /\ HasSuffix(entry, <<Slash>> \o X)
    /\ Len(entry) > Len(X) + 1

\* the tables the GetFullModelName call of p scanned (one per loop)
TablesRead(p) == {rs[p].reads[i].names : i \in 1..Len(rs[p].reads)}

\* names holds e and no other entry that has tail as a suffix
OnlyEntryWithSuffix(names, e, tail) ==
    /\ e \in Range(names)
    /\ \A f \in Range(names) \ {e} : ~HasSuffix(f, tail)

MatchesNothing(names, alias) ==
    \A e \in Range(names) : e # alias /\ ~HasSuffix(e, alias)

\* C5, as claimed: an alias that matches no entry is returned unchanged and
\* without an error, also when the table was empty and a refresh came first.
C5_UnmatchedAliasPassesThrough ==
    \A p \in Procs :
        ( /\ pc[p] = "done"
          /\ req[p].kind = "GetFullModelName"
          /\ MatchesNothing(modelNames, req[p].model) )
            => (rs[p].err = NoErr /\ rs[p].name = req[p].model)

\* C5 where it holds: the provider file with the pass-through, on a table
\* it did not have to refresh or whose refresh succeeded.
C5_PassThroughUnlessRefreshFails ==
    \A p \in Procs :
        ( /\ provider = "part_001"
          /\ pc[p] = "done"
          /\ req[p].kind = "GetFullModelName"
          /\ gm[p].err = NoErr
          /\ MatchesNothing(modelNames, req[p].model) )
            => (rs[p].err = NoErr /\ rs[p].name = req[p].model)

(***************************************************************************)
(* Reads of the table while it is refreshed (SpecRace).                    *)
(***************************************************************************)
\* goroutine q is inside GetModels with the listing in hand
Refreshing(q) ==
    \/ pc[q] \in {"gm_clear", "gm_read", "gm_write"}
    \/ pc[q] = "gm_return" /\ gm[q].err = NoErr

\* the complete tables of this moment: the one the last completed GetModels
\* built (the old table) and the ones the running GetModels calls are
\* building (the new tables)
CompleteTables ==
    {lastComplete} \cup {gm[q].resp : q \in {r \in Procs : Refreshing(r)}}

\* C1, as claimed: every read of the table by GetFullModelName sees the
\* complete old table or the complete new table, never a torn, emptied or
\* half-filled one.
C1_ReadsSeeCompleteTable ==
    [][\A p \in Procs :
          Len(rs'[p].reads) > Len(rs[p].reads)
              => LET r == rs'[p].reads[Len(rs'[p].reads)]
                 IN ~r.torn /\ r.names \in CompleteTables]_vars

(***************************************************************************)
(* The /api/chat translator (Spec).                                        *)
(***************************************************************************)
\* goroutine p has answered a chat request whose upstream stream opened
ChatStreamed(p) == pc[p] = "done" /\ req[p].kind = "chat" /\ st[p].open

IsChunk(item, done) == item.type = "chunk" /\ item.done = done

\* C2, as claimed: deltas followed by a clean end of stream give one
\* non-terminal chunk per delta, in order and with the delta's content, and
\* then one terminal chunk, the last thing written.
C2_OneChunkPerDeltaThenTerminal ==
    \A p \in Procs :
        (ChatStreamed(p) /\ st[p].end = "EOF")
            => LET ds == st[p].deltas
                   body == out[p].body
               IN /\ Len(body) = Len(ds) + 1
                  /\ \A i \in 1..Len(ds) :
                         IsChunk(body[i], FALSE) /\ body[i].content = ds[i].content
                  /\ IsChunk(body[Len(body)], TRUE)

\* C2 for the streams all of whose deltas carry a choice.
C2_OneChunkPerDeltaWithChoices ==
    \A p \in Procs :
        (ChatStreamed(p) /\ st[p].end = "EOF"
                         /\ \A i \in 1..Len(st[p].deltas) : ~st[p].deltas[i].empty)
            => LET ds == st[p].deltas
                   body == out[p].body
               IN /\ Len(body) = Len(ds) + 1
                  /\ \A i \in 1..Len(ds) :
                         IsChunk(body[i], FALSE) /\ body[i].content = ds[i].content
                  /\ IsChunk(body[Len(body)], TRUE)

\* C6: once the upstream stream has returned an error, the response holds
\* no terminal chunk and exactly one error notice, its last item, after one
\* chunk per delta received; the handler has returned and closed the stream.
C6_StreamErrorAborts ==
    \A p \in Procs :
        (st[p].ended /\ st[p].end = "ERR")
            => LET body == out[p].body
               IN /\ \A i \in 1..Len(body) : ~IsChunk(body[i], TRUE)
                  /\ Len(body) = st[p].recvs + 1
                  /\ \A i \in 1..(Len(body) - 1) : IsChunk(body[i], FALSE)
                  /\ body[Len(body)] = ErrorNotice(handler, UpstreamErr)
                  /\ pc[p] = "done"
                  /\ st[p].closed

\* C6's case: the stream failed after chunks had been sent.
C6_Witness ==
    \E p \in Procs :
        /\ st[p].ended /\ st[p].end = "ERR"
        /\ Len(out[p].body) = 3
        /\ out[p].status = 200

\* the finish reason of the last delta of ds that carries one, "stop" if none
LastFinishOf(ds) ==
    LET with == {i \in 1..Len(ds) : ~ds[i].empty /\ ds[i].finish # ""}
    IN IF with = {} THEN "stop"
       ELSE ds[CHOOSE i \in with : \A j \in with : j <= i].finish

\* C8: the terminal chunk of main.go carries the finish reason of the last
\* delta that had one, and "stop" when no delta had one.
C8_TerminalFinishReason ==
    \A p \in Procs :
        (handler = "main" /\ ChatStreamed(p))
            => \A i \in 1..Len(out[p].body) :
                   IsChunk(out[p].body[i], TRUE)
                       => out[p].body[i].finish = LastFinishOf(st[p].deltas)

\* C8's case: a later finish reason has overwritten an earlier one.
C8_Witness ==
    \E p \in Procs :
        /\ handler = "main" /\ ChatStreamed(p)
        /\ Len(st[p].deltas) = 2
        /\ st[p].deltas[1].finish = "stop"
        /\ st[p].deltas[2].finish = "length"
        /\ st[p].end = "EOF"
        /\ Len(out[p].body) = 3
        /\ IsChunk(out[p].body[3], TRUE)
        /\ out[p].body[3].finish = "length"

\* the request of p met an upstream failure: its listing call failed (in
\* /api/tags or in the refresh GetFullModelName starts) or ChatStream failed
UpstreamFailed(p) ==
    /\ pc[p] = "done"
    /\ req[p].kind \in {"tags", "chat"}
    /\ (gm[p].err # NoErr \/ st[p].failed)

\* C9, as claimed: every upstream failure of the listing call or of opening
\* the stream is answered 500 with the upstream error text and no chunk.
C9_UpstreamFailureIs500 ==
    \A p \in Procs :
        UpstreamFailed(p)
            => /\ out[p].status = 500
               /\ Len(out[p].body) = 1
               /\ out[p].body[1].type = "error"
               /\ \A i \in 1..Len(UpstreamErr) :
                      UpstreamErr[i] \in Range(out[p].body[1].error)

\* C9 where it holds: the listing of /api/tags and the stream open.
C9_TagsAndOpenFailureIs500 ==
    \A p \in Procs :
        (UpstreamFailed(p) /\ (req[p].kind = "tags" \/ st[p].failed))
            => /\ out[p].status = 500
               /\ out[p].body = <<[type |-> "error", error |-> UpstreamErr]>>

(***************************************************************************)
(* The table after a listing.                                              *)
(***************************************************************************)
\* C10, as claimed: when a GetModels call returns successfully, the table
\* is the listing that call fetched, in order, whatever the filter holds.
C10_TableIsListingAtReturn ==
    [][\A p \in Procs :
          (pc[p] = "gm_return" /\ pc'[p] # "gm_return" /\ gm[p].err = NoErr)
              => modelNames' = gm[p].resp]_vars

\* C10 with one request at a time: after a successful /api/tags the table
\* is the listing fetched, whatever the filter holds.
C10_TableIsListingAfterTags ==
    \A p \in Procs :
        (pc[p] = "done" /\ req[p].kind = "tags" /\ gm[p].err = NoErr)
            => modelNames = gm[p].resp /\ modelNames = catalog

(***************************************************************************)
(* Cancellation (SpecCancel).                                              *)
(***************************************************************************)
\* C7, as claimed: once the caller has hung up, the handler eventually
\* closes the upstream stream, whether or not the upstream ever ends.
C7_HangUpReleasesStream ==
    \A p \in Procs : (~client[p]) ~> st[p].closed

(***************************************************************************)
(* The filter of /api/tags (Spec).                                         *)
(***************************************************************************)
\* the short display names of a catalog, in catalog order
DisplayNames(cat) == [i \in 1..Len(cat) |-> LastSegment(cat[i])]

\* goroutine p has answered a /api/tags request whose listing succeeded
TagsListed(p) == pc[p] = "done" /\ req[p].kind = "tags" /\ gm[p].err = NoErr

\* C11: /api/tags answers 200 with, under a non-empty filter, the records
\* whose display name is in the filter, in catalog order, and under an
\* empty filter one record for every catalog entry.
C11_TagsAppliesFilter ==
    \A p \in Procs :
        TagsListed(p)
            => LET InFilter(n) == n \in modelFilter
                   all == DisplayNames(catalog)
               IN /\ out[p].status = 200
                  /\ Len(out[p].body) = 1
                  /\ out[p].body[1].type = "models"
                  /\ out[p].body[1].models =
                        IF modelFilter = {} THEN all ELSE SelectSeq(all, InFilter)

\* C11's case: a non-empty filter kept one record of a catalog of two and
\* dropped the other.
C11_Witness ==
    \E p \in Procs :
        /\ TagsListed(p)
        /\ modelFilter # {}
        /\ Len(catalog) = 2
        /\ LastSegment(catalog[1]) \notin modelFilter
        /\ Len(out[p].body) = 1
        /\ out[p].body[1].models = <<LastSegment(catalog[2])>>

(***************************************************************************)
(* The stream flag of /api/chat (Spec, handler of src/main.go).            *)
(***************************************************************************)
\* goroutine p of main.go's handler serves a chat request whose JSON bound
\* and is past the stream flag
ChatFlagSeen(p) ==
    /\ handler = "main"
    /\ req[p].kind = "chat"
    /\ req[p].json
    /\ pc[p] # "chat_bind"

\* C12: main.go answers a request that declares stream=false with 501 and
\* one error object and does nothing else for it (no GetFullModelName, no
\* GetModels, no stream, no chunk); a request without the stream field goes
\* on to alias resolution like one with stream=true and is never answered 501.
C12_NonStreamingNotImplemented ==
    \A p \in Procs :
        ChatFlagSeen(p)
            => IF req[p].stream = "false"
               THEN /\ pc[p] = "done"
                    /\ out[p] = [NoOut EXCEPT
                                   !.status = 501,
                                   !.body = <<[type |-> "error",
                                               error |-> <<"Non-streaming response not implemented yet">>]>>]
                    /\ rs[p] = NoRs
                    /\ gm[p] = NoGm
                    /\ st[p] = NoStream
               ELSE /\ rs[p].caller = "chat"
                    /\ out[p].status # 501

\* C12's case: a request with stream=false has been answered.
C12_Witness ==
    \E p \in Procs :
        /\ ChatFlagSeen(p)
        /\ req[p].stream = "false"
        /\ pc[p] = "done"
        /\ out[p].status = 501

\* C12 for both handlers: the handler of the Dockerfile's main.go has no
\* stream field and streams whatever the request declares.
C12_EveryHandlerRefusesNonStreaming ==
    \A p \in Procs :
        (req[p].kind = "chat" /\ req[p].json /\ req[p].stream = "false"
                              /\ pc[p] = "done")
            => out[p].status = 501

(***************************************************************************)
(* The table after concurrent refreshes (SpecRace).                        *)
(***************************************************************************)
\* every goroutine has finished its call, and at least one of the calls
\* refreshed the table (its listing succeeded and its GetModels returned)
RefreshesCompleted ==
    /\ \A p \in Procs : pc[p] = "done"
    /\ \E p \in Procs : gm[p].cleared /\ gm[p].err = NoErr

\* C13, as claimed: once the concurrent calls have all completed, the table
\* holds the catalog's ids, each once and in listing order.
C13_ConcurrentRefreshesLeaveCatalog ==
    RefreshesCompleted => modelNames = catalog

(***************************************************************************)
(* Deltas without a choice (Spec).                                         *)
(***************************************************************************)
\* the non-terminal chunks written for the request of p
NonTerminalChunks(p) ==
    {i \in 1..Len(out[p].body) : IsChunk(out[p].body[i], FALSE)}

\* C14, as claimed: every delta the stream delivered, one with an empty
\* choices list included, has given a non-terminal chunk, and none has made
\* the handler panic.
C14_EveryDeltaGivesAChunk ==
    \A p \in Procs :
        (req[p].kind = "chat" /\ st[p].open)
            => /\ pc[p] # "panic"
               /\ ~out[p].panicked
               /\ Cardinality(NonTerminalChunks(p)) = st[p].recvs

\* C14 for the deltas that carry a choice: as long as no delta with an empty
\* choices list has been delivered, every delta has given its chunk.
C14_DeltasWithChoicesGiveChunks ==
    \A p \in Procs :
        ( /\ req[p].kind = "chat" /\ st[p].open
          /\ \A i \in 1..st[p].recvs : ~st[p].deltas[i].empty )
            => /\ pc[p] # "panic"
               /\ ~out[p].panicked
               /\ Cardinality(NonTerminalChunks(p)) = st[p].recvs

(***************************************************************************)
(* A listing that fails (SpecRace, Spec).                                  *)
(***************************************************************************)
\* where a goroutine stands inside GetModels
GmSteps == {"gm_list", "gm_clear", "gm_read", "gm_write", "gm_return"}

\* goroutine p takes a step of a GetModels call whose listing has failed
FailedListingStep(p) ==
    /\ pc[p] \in GmSteps
    /\ pc'[p] # pc[p]
    /\ gm'[p].err # NoErr

\* C15: no step of a GetModels call whose listing failed changes the alias
\* table, and the call hands back the upstream error and no models; this
\* holds also while other goroutines use the provider.
C15_FailedListingKeepsTable ==
    [][\A p \in Procs :
          FailedListingStep(p)
              => /\ modelNames' = modelNames
                 /\ gm'[p].err = UpstreamErr
                 /\ gm'[p].models = << >>]_vars

\* C15's case: a GetModels call failed on a filled table, which still holds
\* the catalog.
C15_Witness ==
    \E p \in Procs :
        /\ pc[p] = "done"
        /\ req[p].kind = "GetModels"
        /\ gm[p].err # NoErr
        /\ modelNames # << >>
        /\ modelNames = catalog

\* C15 with one request at a time: after a /api/tags whose listing failed
\* the table is still the one the last successful listing built.
C15_TableKeptAfterFailedTags ==
    \A p \in Procs :
        (pc[p] = "done" /\ req[p].kind = "tags" /\ gm[p].err # NoErr)
            => modelNames = lastComplete

=============================================================================
